---- MODULE Spec2Model ----
(***************************************************************************)
(* Model of hashserver.py: an aiohttp service answering hash-equivalence   *)
(* queries from one sqlite table (tasks_v2) through ONE shared aiosqlite   *)
(* connection.  Every awaited database call is executed by the             *)
(* connection's worker thread, one call at a time; between two awaited     *)
(* calls of a handler any other handler may run.  The actions below are    *)
(* the handlers cut at their awaits.                                       *)
(***************************************************************************)
EXTENDS Integers, FiniteSets, TLC

\* ---------------------------------------------------------------- bounds
MaxCalls == 3          \* requests accepted in one behaviour

\* ------------------------------------------------------------ input sets
Reqs       == {"r1", "r2"}                 \* concurrently served requests
Methods    == {"m1", "m2"}
Outhashes  == {"h1", "h2"}
Taskhashes == {"t1", "t2", "t3"}
Unihashes  == {"u1", "u2"}

\* Python's None (no row, no value yet), and the error an uncaught
\* sqlite3.IntegrityError turns the response into.
None == [none |-> TRUE]
IntegrityError == [error |-> "IntegrityError"]

\* A key that is absent from the request body, and the KeyError that
\* reading it raises (uncaught, like IntegrityError).
Missing == "<missing>"
KeyError == [error |-> "KeyError"]

VARIABLES
    rows,      \* tasks_v2 as seen through the shared connection
    durable,   \* the rows of tasks_v2 that are committed
    now,       \* last value returned by datetime.now()
    calls,     \* number of requests accepted so far
    pc,        \* pc[r]: position of request r in its handler
    data,      \* data[r]: the request's query / JSON body
    row,       \* row[r]: result of cursor.fetchone() in post_equivalent
    ins,       \* ins[r]: insert_data of post_equivalent
    resp,      \* resp[r]: the response d (or the error raised)
    pre,       \* history: pre[r] is the table at the moment r's SELECT ran
    latest,    \* history: the request accepted last
    alone,     \* history: no other request was in flight while r was
    serial     \* history: no two requests have been in flight together

vars == <<rows, durable, now, calls, pc, data, row, ins, resp,
          pre, latest, alone, serial>>

\* ------------------------------------------------------------ the table
\* A row of tasks_v2 (the optional columns are never read by any query).
TaskRecord(m, h, t, u, c) ==
    [method |-> m, outhash |-> h, taskhash |-> t, unihash |-> u, created |-> c]

\* SELECT taskhash, method, unihash: the three columns a cursor row carries.
Project(x) == [taskhash |-> x.taskhash, method |-> x.method, unihash |-> x.unihash]

\* Faulty variant: the table is declared without its UNIQUE constraint.
ConflictsNoConstraint(table, x) == FALSE

\* UNIQUE(method, outhash, taskhash): would inserting x violate it?
Conflicts(table, x) ==
    \E y \in table : /\ y.method = x.method
                     /\ y.outhash = x.outhash
                     /\ y.taskhash = x.taskhash

\* Faulty variant: ORDER BY created DESC.
LookupRowsNewest(table, m, t) ==
    LET match == {x \in table : x.method = m /\ x.taskhash = t}
    IN  {x \in match : \A y \in match : x.created >= y.created}

\* Faulty variant: the WHERE clause forgets the method.
LookupRowsAnyMethod(table, m, t) ==
    LET match == {x \in table : x.taskhash = t}
    IN  {x \in match : \A y \in match : x.created <= y.created}

\* get_equivalent's query: WHERE method AND taskhash ORDER BY created ASC
\* LIMIT 1.  The set of rows the query may return (rows of equal created are
\* in no defined order); empty when nothing matches.
LookupRows(table, m, t) ==
    LET match == {x \in table : x.method = m /\ x.taskhash = t}
    IN  {x \in match : \A y \in match : x.created <= y.created}

\* Faulty variant: the ORDER BY does not prefer the exact taskhash.
OrderKeyNoPreference(x, t) == 2

\* The first ORDER BY term of post_equivalent's query:
\* CASE WHEN taskhash=:taskhash THEN 1 ELSE 2 END.
OrderKey(x, t) == IF x.taskhash = t THEN 1 ELSE 2

\* Faulty variant: the second ORDER BY term is created DESC.
CandidateRowsNewest(table, m, h, t) ==
    LET match == {x \in table : x.method = m /\ x.outhash = h}
        Before(x, y) == \/ OrderKey(x, t) < OrderKey(y, t)
                        \/ /\ OrderKey(x, t) = OrderKey(y, t)
                           /\ x.created >= y.created
    IN  {x \in match : \A y \in match : Before(x, y)}

\* Faulty variant: the WHERE clause forgets the method.
CandidateRowsAnyMethod(table, m, h, t) ==
    LET match == {x \in table : x.outhash = h}
        Before(x, y) == \/ OrderKey(x, t) < OrderKey(y, t)
                        \/ /\ OrderKey(x, t) = OrderKey(y, t)
                           /\ x.created <= y.created
    IN  {x \in match : \A y \in match : Before(x, y)}

\* post_equivalent's query: WHERE method AND outhash
\* ORDER BY CASE WHEN taskhash=:taskhash THEN 1 ELSE 2 END, created ASC LIMIT 1.
CandidateRows(table, m, h, t) ==
    LET match == {x \in table : x.method = m /\ x.outhash = h}
        Before(x, y) == \/ OrderKey(x, t) < OrderKey(y, t)
                        \/ /\ OrderKey(x, t) = OrderKey(y, t)
                           /\ x.created <= y.created
    IN  {x \in match : \A y \in match : Before(x, y)}

\* cursor.fetchone(): one of the rows the query may return, projected; None
\* when the query returns nothing.
FetchOne(result) == IF result = {} THEN {None} ELSE {Project(x) : x \in result}

\* ------------------------------------------------------------- requests
InFlight(r) == pc[r] \notin {"idle", "done", "error"}

\* The requests the clients send.  To keep the state space small the second
\* method is used with one outhash and one taskhash only, and the second
\* outhash with one taskhash only.
GetData ==
    {d \in [kind : {"get"}, method : Methods, taskhash : Taskhashes] :
        d.method = "m2" => d.taskhash = "t1"}
PostData ==
    {d \in [kind : {"post"}, method : Methods, outhash : Outhashes,
            taskhash : Taskhashes, unihash : Unihashes] :
        /\ d.method = "m2" => (d.outhash = "h1" /\ d.taskhash = "t1")
        /\ d.outhash = "h2" => d.taskhash = "t1"}

Init ==
    /\ rows = {}
    /\ durable = {}
    /\ now = 0
    /\ calls = 0
    /\ pc = [r \in Reqs |-> "idle"]
    /\ data = [r \in Reqs |-> None]
    /\ row = [r \in Reqs |-> None]
    /\ ins = [r \in Reqs |-> None]
    /\ resp = [r \in Reqs |-> None]
    /\ pre = [r \in Reqs |-> {}]
    /\ latest = "none"
    /\ alone = [r \in Reqs |-> TRUE]
    /\ serial = TRUE

\* A request arrives and its handler starts (the router picks the handler,
\* the handler reads its input and queues the SELECT).
Accept(r, d) ==
    /\ ~InFlight(r)
    /\ calls < MaxCalls
    /\ calls' = calls + 1
    /\ pc' = [pc EXCEPT ![r] = "select"]
    /\ data' = [data EXCEPT ![r] = d]
    /\ row' = [row EXCEPT ![r] = None]
    /\ ins' = [ins EXCEPT ![r] = None]
    /\ resp' = [resp EXCEPT ![r] = None]
    /\ pre' = [pre EXCEPT ![r] = {}]
    /\ latest' = r
    /\ alone' = [q \in Reqs |->
                    IF q = r THEN \A o \in Reqs \ {r} : ~InFlight(o)
                    ELSE IF InFlight(q) THEN FALSE ELSE alone[q]]
    /\ serial' = (serial /\ \A o \in Reqs \ {r} : ~InFlight(o))
    /\ UNCHANGED <<rows, durable, now>>

\* Faulty variant: get_equivalent ends with db.commit().
GetEquivalentCommitting(r) ==
    /\ pc[r] = "select"
    /\ data[r].kind = "get"
    /\ \E x \in FetchOne(LookupRows(rows, data[r].method, data[r].taskhash)) :
          resp' = [resp EXCEPT ![r] = x]
    /\ pc' = [pc EXCEPT ![r] = "done"]
    /\ pre' = [pre EXCEPT ![r] = rows]
    /\ durable' = rows
    /\ UNCHANGED <<rows, now, calls, data, row, ins, latest, alone, serial>>

\* get_equivalent: the SELECT runs, the row is fetched and projected into
\* the response (None when there is no row).
GetEquivalent(r) ==
    /\ pc[r] = "select"
    /\ data[r].kind = "get"
    /\ \E x \in FetchOne(LookupRows(rows, data[r].method, data[r].taskhash)) :
          resp' = [resp EXCEPT ![r] = x]
    /\ pc' = [pc EXCEPT ![r] = "done"]
    /\ pre' = [pre EXCEPT ![r] = rows]
    /\ UNCHANGED <<rows, durable, now, calls, data, row, ins, latest, alone, serial>>

\* post_equivalent, lines 43-58: the candidate SELECT runs and fetchone()
\* delivers its first row.
PostSelect(r) ==
    /\ pc[r] = "select"
    /\ data[r].kind = "post"
    /\ \E x \in FetchOne(CandidateRows(rows, data[r].method, data[r].outhash,
                                       data[r].taskhash)) :
          row' = [row EXCEPT ![r] = x]
    /\ pc' = [pc EXCEPT ![r] = "decide"]
    /\ pre' = [pre EXCEPT ![r] = rows]
    /\ UNCHANGED <<rows, durable, now, calls, data, ins, resp, latest, alone, serial>>

\* Faulty variant: the caller's unihash is used although a row was found.
ChooseUnihashCaller(fetched, d) == d.unihash

\* The unihash of the record to insert, lines 67-69.
ChooseUnihash(fetched, d) == IF fetched # None THEN fetched.unihash ELSE d.unihash

\* post_equivalent, lines 63-82 and 97-98: the handler resumes with the
\* fetched row.  Either it builds insert_data and queues the INSERT, or it
\* answers with the fetched row.  datetime.now() is read here, before the
\* INSERT runs; successive readings are taken to be strictly increasing.
\* data['unihash'] is first read here (line 67), on the inserting path only.
PostDecide(r) ==
    /\ pc[r] = "decide"
    /\ IF row[r] = None \/ row[r].taskhash # data[r].taskhash
       THEN IF data[r].unihash = Missing
            THEN /\ pc' = [pc EXCEPT ![r] = "error"]
                 /\ resp' = [resp EXCEPT ![r] = KeyError]
                 /\ UNCHANGED <<now, ins>>
            ELSE /\ now' = now + 1
                 /\ ins' = [ins EXCEPT ![r] =
                       TaskRecord(data[r].method, data[r].outhash,
                                  data[r].taskhash,
                                  ChooseUnihash(row[r], data[r]), now + 1)]
                 /\ pc' = [pc EXCEPT ![r] = "insert"]
                 /\ UNCHANGED resp
       ELSE /\ resp' = [resp EXCEPT ![r] = row[r]]
            /\ pc' = [pc EXCEPT ![r] = "done"]
            /\ UNCHANGED <<now, ins>>
    /\ UNCHANGED <<rows, durable, calls, data, row, pre, latest, alone, serial>>

\* Faulty variant: INSERT OR REPLACE keyed on (method, outhash).
InsertedReplacingClass(table, x) ==
    {y \in table : ~(y.method = x.method /\ y.outhash = x.outhash)} \cup {x}

\* The table after INSERT INTO tasks_v2 of x (no constraint violated).
Inserted(table, x) == table \cup {x}

\* post_equivalent, lines 83-86: the INSERT runs.  A row with the same
\* (method, outhash, taskhash) makes sqlite raise IntegrityError, which no
\* handler catches: the request ends with the error.
PostInsert(r) ==
    /\ pc[r] = "insert"
    /\ IF Conflicts(rows, ins[r])
       THEN /\ pc' = [pc EXCEPT ![r] = "error"]
            /\ resp' = [resp EXCEPT ![r] = IntegrityError]
            /\ UNCHANGED rows
       ELSE /\ rows' = Inserted(rows, ins[r])
            /\ pc' = [pc EXCEPT ![r] = "commit"]
            /\ UNCHANGED resp
    /\ UNCHANGED <<durable, now, calls, data, row, ins, pre, latest, alone, serial>>

\* Faulty variant: the response is built without awaiting db.commit().
PostCommitSkipped(r) ==
    /\ pc[r] = "commit"
    /\ resp' = [resp EXCEPT ![r] =
          [taskhash |-> data[r].taskhash, method |-> data[r].method,
           unihash |-> ins[r].unihash]]
    /\ pc' = [pc EXCEPT ![r] = "done"]
    /\ UNCHANGED <<rows, durable, now, calls, data, row, ins, pre, latest,
                   alone, serial>>

\* Faulty variant: the response carries the caller's unihash, not the one
\* inserted.
PostCommitCallerUnihash(r) ==
    /\ pc[r] = "commit"
    /\ durable' = rows
    /\ resp' = [resp EXCEPT ![r] =
          [taskhash |-> data[r].taskhash, method |-> data[r].method,
           unihash |-> data[r].unihash]]
    /\ pc' = [pc EXCEPT ![r] = "done"]
    /\ UNCHANGED <<rows, now, calls, data, row, ins, pre, latest, alone, serial>>

\* post_equivalent, lines 91-96: db.commit() commits everything pending on
\* the shared connection; then the response is built from the request's own
\* taskhash and method and the unihash it inserted.
PostCommit(r) ==
    /\ pc[r] = "commit"
    /\ durable' = rows
    /\ resp' = [resp EXCEPT ![r] =
          [taskhash |-> data[r].taskhash, method |-> data[r].method,
           unihash |-> ins[r].unihash]]
    /\ pc' = [pc EXCEPT ![r] = "done"]
    /\ UNCHANGED <<rows, now, calls, data, row, ins, pre, latest, alone, serial>>

Next ==
    \E r \in Reqs :
        \/ \E d \in GetData \cup PostData : Accept(r, d)
        \/ GetEquivalent(r)
        \/ PostSelect(r)
        \/ PostDecide(r)
        \/ PostInsert(r)
        \/ PostCommit(r)

Spec == Init /\ [][Next]_vars

\* ---------------------------------------------------- crash and restart
\* What a request in flight ends with when the process dies.
ConnectionLost == [error |-> "ConnectionLost"]

\* The process dies and is started again: setup_database opens the database
\* file, which holds the committed rows only (with or without the write-ahead
\* log of line 130); every request in flight is gone with all its local
\* state.  Responses already sent stay with their callers.
Crash ==
    /\ rows' = durable
    /\ pc' = [r \in Reqs |-> IF InFlight(r) THEN "error" ELSE pc[r]]
    /\ resp' = [r \in Reqs |-> IF InFlight(r) THEN ConnectionLost ELSE resp[r]]
    /\ data' = [r \in Reqs |-> IF InFlight(r) THEN None ELSE data[r]]
    /\ row' = [r \in Reqs |-> IF InFlight(r) THEN None ELSE row[r]]
    /\ ins' = [r \in Reqs |-> IF InFlight(r) THEN None ELSE ins[r]]
    /\ pre' = [r \in Reqs |-> IF InFlight(r) THEN {} ELSE pre[r]]
    /\ UNCHANGED <<durable, now, calls, latest, alone, serial>>

CrashNext == Next \/ Crash

CrashSpec == Init /\ [][CrashNext]_vars

\* --------------------------------------------------------- cancellation
\* What a handler ends with when its task is cancelled (the client went
\* away) while it awaits a database call.
CancelledError == [error |-> "CancelledError"]

\* Cancelled while awaiting the SELECT or its fetchone() (lines 43-58).
CancelRead(r) ==
    /\ pc[r] \in {"select", "decide"}
    /\ pc' = [pc EXCEPT ![r] = "error"]
    /\ resp' = [resp EXCEPT ![r] = CancelledError]
    /\ UNCHANGED <<rows, durable, now, calls, data, row, ins, pre, latest,
                   alone, serial>>

\* Cancelled while awaiting cursor.execute(INSERT) (lines 83-86).  The
\* statement was handed to the connection's thread; it is executed or not
\* (ran), the handler never reaches db.commit(), and leaving the
\* "async with db.cursor()" block (line 42) only closes the cursor.
CancelInsert(r) ==
    /\ pc[r] = "insert"
    /\ \E ran \in BOOLEAN :
          rows' = IF ran /\ ~Conflicts(rows, ins[r])
                  THEN Inserted(rows, ins[r]) ELSE rows
    /\ pc' = [pc EXCEPT ![r] = "error"]
    /\ resp' = [resp EXCEPT ![r] = CancelledError]
    /\ UNCHANGED <<durable, now, calls, data, row, ins, pre, latest, alone,
                   serial>>

\* Cancelled while awaiting db.commit() (line 91): the commit was handed to
\* the connection's thread; it is executed or not (ran).
CancelCommit(r) ==
    /\ pc[r] = "commit"
    /\ \E ran \in BOOLEAN : durable' = IF ran THEN rows ELSE durable
    /\ pc' = [pc EXCEPT ![r] = "error"]
    /\ resp' = [resp EXCEPT ![r] = CancelledError]
    /\ UNCHANGED <<rows, now, calls, data, row, ins, pre, latest, alone,
                   serial>>

CancelNext ==
    \/ Next
    \/ \E r \in Reqs : CancelRead(r)
    \/ \E r \in Reqs : CancelInsert(r)
    \/ \E r \in Reqs : CancelCommit(r)

CancelSpec == Init /\ [][CancelNext]_vars

\* ------------------------------------------------- incomplete requests
\* Write requests whose body lacks one of the required keys.
PartialData ==
    {d \in [kind : {"post"}, method : {"m1", Missing}, outhash : {"h1", Missing},
            taskhash : {"t1", Missing}, unihash : {"u2", Missing}] :
        Cardinality({k \in {"method", "outhash", "taskhash", "unihash"} :
                        d[k] = Missing}) = 1}

\* The keys post_equivalent reads while building the SELECT's parameters
\* (line 56), before the SELECT is handed to the connection.
SelectKeys == {"method", "outhash", "taskhash"}

\* post_equivalent, lines 40-56, for a body that lacks one of SelectKeys:
\* building the parameters raises KeyError; no statement is executed.
PostKeyError(r, d) ==
    /\ ~InFlight(r)
    /\ calls < MaxCalls
    /\ \E k \in SelectKeys : d[k] = Missing
    /\ calls' = calls + 1
    /\ pc' = [pc EXCEPT ![r] = "error"]
    /\ data' = [data EXCEPT ![r] = d]
    /\ row' = [row EXCEPT ![r] = None]
    /\ ins' = [ins EXCEPT ![r] = None]
    /\ resp' = [resp EXCEPT ![r] = KeyError]
    /\ pre' = [pre EXCEPT ![r] = {}]
    /\ latest' = r
    /\ alone' = [q \in Reqs |->
                    IF q = r THEN \A o \in Reqs \ {r} : ~InFlight(o)
                    ELSE IF InFlight(q) THEN FALSE ELSE alone[q]]
    /\ serial' = (serial /\ \A o \in Reqs \ {r} : ~InFlight(o))
    /\ UNCHANGED <<rows, durable, now>>

\* A body that lacks only unihash passes line 56: the handler starts as for
\* a complete body.
AcceptPartial(r, d) ==
    /\ \A k \in SelectKeys : d[k] # Missing
    /\ Accept(r, d)

ValidationNext ==
    \/ Next
    \/ \E r \in Reqs : \E d \in PartialData : PostKeyError(r, d)
    \/ \E r \in Reqs : \E d \in PartialData : AcceptPartial(r, d)

ValidationSpec == Init /\ [][ValidationNext]_vars

\* ------------------------------------------------------------ vocabulary
\* The records of table in the equivalence class (m, h).
Class(table, m, h) == {x \in table : x.method = m /\ x.outhash = h}

\* The records of table for the triple (m, h, t).
Triple(table, m, h, t) == {x \in Class(table, m, h) : x.taskhash = t}

\* The earliest-created records of a set of records.
Earliest(S) == {x \in S : \A y \in S : x.created <= y.created}

\* All records of one (method, outhash) carry one unihash.
Converged(table) ==
    \A x \in table : \A y \in Class(table, x.method, x.outhash) :
        x.unihash = y.unihash

\* A post request that has passed its decision (lines 63-98).
Decided(r) ==
    /\ pc[r] \in {"insert", "commit", "done", "error"}
    /\ data[r].kind = "post"

\* r ran with no other request in flight, and no request was accepted since.
Solo(r) == alone[r] /\ latest = r

\* ---------------------------------------------------------------- claims
\* C1: merge calls racing on a brand-new (method, outhash) with different
\* taskhashes and different caller unihashes leave records that all carry
\* one unihash.  (The store starts empty, so every class is brand-new when
\* first written.)
C1_NoFragmentation == Converged(rows)

\* C2: a merge call whose INSERT hits the uniqueness constraint returns the
\* existing record as a normal result; the violation is never the outcome of
\* the request.
C2_DuplicateNeverSurfaces ==
    \A r \in Reqs : pc[r] # "error" /\ resp[r] # IntegrityError

\* C3: the table never holds two records for one (method, outhash,
\* taskhash).
C3_TripleUnique ==
    \A x \in rows : \A y \in rows :
        (x.method = y.method /\ x.outhash = y.outhash /\ x.taskhash = y.taskhash)
            => x = y

\* C3's case: two requests raced to insert one triple, one INSERT was
\* rejected and the table holds the winner's record.
C3_Witness ==
    \E r \in Reqs :
        /\ pc[r] = "error"
        /\ Triple(rows, ins[r].method, ins[r].outhash, ins[r].taskhash) # {}
        /\ ins[r] \notin rows

\* C4: while requests are served one at a time, all records of one (method,
\* outhash) carry the unihash of the earliest-created record of that class.
C4_SerialConverged ==
    serial =>
        \A x \in rows : \A y \in Earliest(Class(rows, x.method, x.outhash)) :
            x.unihash = y.unihash

\* C4's case: served one at a time, a request joined an existing class and
\* its record carries the class's unihash, not the one its caller supplied.
C4_Witness ==
    /\ serial
    /\ \E r \in Reqs :
          /\ pc[r] = "done"
          /\ data[r].kind = "post"
          /\ ins[r] \in rows
          /\ ins[r].unihash # data[r].unihash
          /\ Class(rows, data[r].method, data[r].outhash) # {ins[r]}

\* C5: a merge call whose candidate SELECT ran when its (method, outhash)
\* already had a record returns the unihash of the first record created for
\* that class, whatever ran concurrently.
C5_FirstRecordAuthoritative ==
    \A r \in Reqs :
        (pc[r] = "done" /\ data[r].kind = "post")
            => \A y \in Earliest(Class(pre[r], data[r].method, data[r].outhash)) :
                   resp[r].unihash = y.unihash

\* C6 (Case B): a merge call served alone on a table that has records for
\* its (method, outhash) but none for its taskhash ends normally, adds
\* exactly one record, for its own triple and with the unihash of the
\* earliest-created record of the class, commits it and returns that unihash.
C6_CaseB ==
    \A r \in Reqs :
        LET d == data[r]
            class == Class(pre[r], d.method, d.outhash)
        IN  (/\ Decided(r)
             /\ Solo(r)
             /\ class # {}
             /\ Triple(pre[r], d.method, d.outhash, d.taskhash) = {})
            => /\ pc[r] # "error"
               /\ ins[r] # None
               /\ \E x \in Earliest(class) :
                     ins[r] = TaskRecord(d.method, d.outhash, d.taskhash,
                                         x.unihash, ins[r].created)
               /\ pc[r] = "insert" => rows = pre[r]
               /\ pc[r] \in {"commit", "done"}
                     => (ins[r] \notin pre[r] /\ rows = pre[r] \cup {ins[r]})
               /\ pc[r] = "done"
                     => (durable = rows /\ resp[r] = Project(ins[r]))

\* C6's case: the class was fragmented by an earlier race, and the call
\* took the unihash of the earliest record, which is neither the unihash of
\* the later record nor the one the caller supplied.
C6_Witness ==
    \E r \in Reqs :
        LET d == data[r]
            class == Class(pre[r], d.method, d.outhash)
        IN  /\ pc[r] = "done"
            /\ d.kind = "post"
            /\ Solo(r)
            /\ Triple(pre[r], d.method, d.outhash, d.taskhash) = {}
            /\ \E x \in class : \E y \in class :
                  /\ x.created < y.created
                  /\ x.unihash # y.unihash
                  /\ resp[r].unihash = x.unihash
                  /\ d.unihash # x.unihash

\* C7 (Case C): a merge call whose triple is already in the table when its
\* SELECT runs answers with that record's unihash whatever unihash the
\* caller supplied, never reaches the INSERT, and, served alone, leaves the
\* table as it was.
C7_CaseC ==
    \A r \in Reqs :
        LET d == data[r]
            exact == Triple(pre[r], d.method, d.outhash, d.taskhash)
        IN  (Decided(r) /\ exact # {})
            => /\ pc[r] = "done"
               /\ ins[r] = None
               /\ \A x \in exact : resp[r] = Project(x)
               /\ Solo(r) => (rows = pre[r] /\ durable = rows)

\* C7's case: the triple exists, an older record of the class with another
\* taskhash carries another unihash, and the caller supplied another
\* unihash than the stored one.
C7_Witness ==
    \E r \in Reqs :
        LET d == data[r]
            class == Class(pre[r], d.method, d.outhash)
        IN  /\ pc[r] = "done"
            /\ d.kind = "post"
            /\ Solo(r)
            /\ \E x \in class : \E y \in class :
                  /\ x.taskhash = d.taskhash
                  /\ y.taskhash # d.taskhash
                  /\ y.created < x.created
                  /\ y.unihash # x.unihash
                  /\ d.unihash # x.unihash
                  /\ resp[r].unihash = x.unihash

\* C8 (Case A): a merge call served alone on a table with no record for its
\* (method, outhash) ends normally, adds exactly one record, for its own
\* triple and with the caller's unihash, commits it and returns that unihash.
C8_CaseA ==
    \A r \in Reqs :
        LET d == data[r]
        IN  (/\ Decided(r)
             /\ Solo(r)
             /\ Class(pre[r], d.method, d.outhash) = {})
            => /\ pc[r] # "error"
               /\ ins[r] # None
               /\ ins[r] = TaskRecord(d.method, d.outhash, d.taskhash,
                                      d.unihash, ins[r].created)
               /\ pc[r] = "insert" => rows = pre[r]
               /\ pc[r] \in {"commit", "done"}
                     => (ins[r] \notin pre[r] /\ rows = pre[r] \cup {ins[r]})
               /\ pc[r] = "done"
                     => (durable = rows /\ resp[r] = Project(ins[r]))

\* C8's case: the table holds the same taskhash with another unihash under
\* another outhash and under another method.
C8_Witness ==
    \E r \in Reqs :
        LET d == data[r]
        IN  /\ pc[r] = "done"
            /\ d.kind = "post"
            /\ Solo(r)
            /\ Class(pre[r], d.method, d.outhash) = {}
            /\ resp[r].unihash = d.unihash
            /\ \E x \in pre[r] : \E y \in pre[r] :
                  /\ x.method = d.method /\ x.outhash # d.outhash
                  /\ x.taskhash = d.taskhash /\ x.unihash # d.unihash
                  /\ y.method # d.method /\ y.outhash = d.outhash
                  /\ y.taskhash = d.taskhash /\ y.unihash # d.unihash

\* C9: resolve answers None when the table has no record with its method and
\* taskhash, and otherwise answers with the taskhash, method and unihash of
\* the earliest-created record with that method and taskhash, whatever its
\* outhash.
C9_Resolve ==
    \A r \in Reqs :
        (pc[r] = "done" /\ data[r].kind = "get")
            => LET match == {x \in pre[r] : /\ x.method = data[r].method
                                            /\ x.taskhash = data[r].taskhash}
               IN  IF match = {}
                   THEN resp[r] = None
                   ELSE \E x \in match :
                           /\ \A y \in match : x.created <= y.created
                           /\ resp[r] = Project(x)

\* C9's case: two records match under different outhashes and with different
\* unihashes; the earlier-created one was inserted after the later-created
\* one was committed, and resolve answers with the earlier-created one.
C9_Witness ==
    \E r \in Reqs :
        /\ pc[r] = "done"
        /\ data[r].kind = "get"
        /\ \E x \in pre[r] : \E y \in pre[r] :
              /\ x.method = data[r].method /\ y.method = data[r].method
              /\ x.taskhash = data[r].taskhash /\ y.taskhash = data[r].taskhash
              /\ x.outhash # y.outhash
              /\ x.unihash # y.unihash
              /\ x.created < y.created
              /\ y \in durable /\ x \notin durable
              /\ resp[r] = Project(x)

\* C10 as claimed: after a merge call served alone on a table with no record
\* for its (method, outhash), a resolve of its method and taskhash that runs
\* after it returns the unihash the caller supplied.
C10_ResolveAfterMerge ==
    \A r \in Reqs : \A q \in Reqs :
        (/\ pc[r] = "done" /\ data[r].kind = "post" /\ alone[r]
         /\ Class(pre[r], data[r].method, data[r].outhash) = {}
         /\ pc[q] = "done" /\ data[q].kind = "get"
         /\ data[q].method = data[r].method
         /\ data[q].taskhash = data[r].taskhash
         /\ ins[r] \in pre[q])
            => resp[q].unihash = data[r].unihash

\* C10 amended: the same, when in addition the table had no record with the
\* merge call's method and taskhash under any outhash.
C10_ResolveAfterFirstMerge ==
    \A r \in Reqs : \A q \in Reqs :
        (/\ pc[r] = "done" /\ data[r].kind = "post" /\ alone[r]
         /\ Class(pre[r], data[r].method, data[r].outhash) = {}
         /\ LookupRows(pre[r], data[r].method, data[r].taskhash) = {}
         /\ pc[q] = "done" /\ data[q].kind = "get"
         /\ data[q].method = data[r].method
         /\ data[q].taskhash = data[r].taskhash
         /\ ins[r] \in pre[q])
            => resp[q].unihash = data[r].unihash

\* C10's case: the merge call created the first record of its method and
\* taskhash, a later merge call recorded the same taskhash under another
\* outhash with another unihash, and the resolve saw both records.
C10_Witness ==
    \E r \in Reqs : \E q \in Reqs :
        /\ pc[r] = "done" /\ data[r].kind = "post" /\ alone[r]
        /\ Class(pre[r], data[r].method, data[r].outhash) = {}
        /\ LookupRows(pre[r], data[r].method, data[r].taskhash) = {}
        /\ pc[q] = "done" /\ data[q].kind = "get"
        /\ data[q].method = data[r].method
        /\ data[q].taskhash = data[r].taskhash
        /\ ins[r] \in pre[q]
        /\ \E y \in pre[q] :
              /\ y.method = data[r].method /\ y.taskhash = data[r].taskhash
              /\ y.unihash # data[r].unihash
        /\ resp[q].unihash = data[r].unihash

\* C12: the table is append-only.  No step removes or changes a record, in
\* the table or among the committed records; a step adds at most one record,
\* and only the INSERT step of a merge call adds one, for that call's own
\* (method, outhash, taskhash).
C12_AppendOnly ==
    [][/\ rows \subseteq rows'
       /\ durable \subseteq durable'
       /\ \A x \in rows' \ rows :
             /\ rows' = rows \cup {x}
             /\ \E r \in Reqs :
                   /\ pc[r] = "insert" /\ pc'[r] = "commit"
                   /\ data[r].kind = "post"
                   /\ x.method = data[r].method
                   /\ x.outhash = data[r].outhash
                   /\ x.taskhash = data[r].taskhash]_vars

\* C12's case: a merge call inserted its record into a class that already
\* held a record with another unihash.
C12_Witness ==
    \E r \in Reqs :
        /\ pc[r] \in {"commit", "done"}
        /\ ins[r] # None
        /\ ins[r] \in rows
        /\ \E y \in Class(rows, ins[r].method, ins[r].outhash) :
              y.unihash # ins[r].unihash

\* C13: the step of resolve leaves the table and the committed records as
\* they were, whether a record is found or not.
C13_ResolveNoSideEffect ==
    [][\A r \in Reqs :
          (pc[r] = "select" /\ data[r].kind = "get" /\ pc'[r] = "done")
              => (rows' = rows /\ durable' = durable)]_vars

\* C13's case: a resolve found a record while an INSERT was pending on the
\* connection, not yet committed (a commit would have been a side effect).
C13_Witness ==
    \E r \in Reqs :
        /\ pc[r] = "done" /\ data[r].kind = "get" /\ resp[r] # None
        /\ ~(pre[r] \subseteq durable)

\* The records of table under method m.
OfMethod(table, m) == {x \in table : x.method = m}

\* C14: methods are independent.  What a request reads is what it would read
\* from the records of its own method alone: resolve's answer, the candidate
\* a merge call fetches, and the unihash a merge call inserts and returns
\* (the caller's or one of a record of its own method); and the record a
\* merge call inserts carries its own method, so it changes no query under
\* another method.
C14_MethodsIndependent ==
    \A r \in Reqs :
        LET d == data[r]
            own == OfMethod(pre[r], d.method)
            unis == {d.unihash} \cup {x.unihash : x \in own}
        IN  /\ (pc[r] = "done" /\ d.kind = "get")
                => resp[r] \in FetchOne(LookupRows(own, d.method, d.taskhash))
            /\ (pc[r] \in {"decide", "insert", "commit", "done", "error"}
                    /\ d.kind = "post")
                => /\ row[r] \in FetchOne(CandidateRows(own, d.method,
                                                        d.outhash, d.taskhash))
                   /\ ins[r] # None
                         => (ins[r].method = d.method /\ ins[r].unihash \in unis)
                   /\ pc[r] = "done"
                         => (resp[r].method = d.method /\ resp[r].unihash \in unis)

\* C14's case: the table held a record of another method for the same
\* outhash and taskhash with another unihash, none for the call's own
\* (method, outhash), and the merge call returned its caller's unihash.
C14_Witness ==
    \E r \in Reqs :
        LET d == data[r]
        IN  /\ pc[r] = "done"
            /\ d.kind = "post"
            /\ Class(pre[r], d.method, d.outhash) = {}
            /\ \E y \in pre[r] :
                  /\ y.method # d.method
                  /\ y.outhash = d.outhash
                  /\ y.taskhash = d.taskhash
                  /\ y.unihash # d.unihash
            /\ resp[r].unihash = d.unihash

\* C17: when a merge call has returned normally, the table holds a record
\* for the call's own (method, outhash, taskhash), and the returned
\* taskhash, method and unihash are that record's.
C17_ResponseMatchesRecord ==
    \A r \in Reqs :
        (pc[r] = "done" /\ data[r].kind = "post")
            => \E x \in Triple(rows, data[r].method, data[r].outhash,
                               data[r].taskhash) :
                  resp[r] = Project(x)

\* C17's case: a merge call that ran while another request was in flight
\* inserted a record with an inherited unihash and returned it.
C17_Witness ==
    \E r \in Reqs :
        /\ pc[r] = "done"
        /\ data[r].kind = "post"
        /\ ~alone[r]
        /\ ins[r] # None
        /\ resp[r].unihash # data[r].unihash

C11_RejectedBeforeResolution ==
    \A r \in Reqs :
        (pc[r] # "idle" /\ data[r] \in PartialData)
            => pc[r] \in {"select", "error"} /\ pre[r] = {} /\ row[r] = None

\* C11, the part on the result alone: such a request never returns a normal
\* result.
C11_NeverNormalResult ==
    \A r \in Reqs :
        (pc[r] # "idle" /\ data[r] \in PartialData) => pc[r] # "done"

\* C15: when a merge call that inserted a record has returned, the record is
\* committed, and it is in the table after any later crash and restart.
C15_AcknowledgedIsDurable ==
    \A r \in Reqs :
        (pc[r] = "done" /\ data[r].kind = "post" /\ ins[r] # None)
            => (ins[r] \in durable /\ ins[r] \in rows)

\* C15's case: a merge call inserted a record and returned; a request
\* accepted after it was in flight when the process crashed; the returned
\* call's record is in the table after the restart.
C15_Witness ==
    \E r \in Reqs : \E q \in Reqs :
        /\ pc[r] = "done" /\ data[r].kind = "post"
        /\ ins[r] # None /\ ins[r] \in rows
        /\ q # r /\ latest = q
        /\ resp[q] = ConnectionLost

\* C16: once a cancelled merge request is gone, its record is either not in
\* the table at all or committed; no inserted but uncommitted record of it
\* is left on the connection.
C16_CancelLeavesNoPartialRecord ==
    \A r \in Reqs :
        (resp[r] = CancelledError /\ ins[r] # None)
            => (ins[r] \notin rows \/ ins[r] \in durable)

====
